---- MODULE Spec2Model ----
(***************************************************************************)
(* A model of the `cayley` crate (src/src/lib.rs): the Matrix<T, N, M>     *)
(* value type, its constructors, indexing, element-wise arithmetic,        *)
(* multiplication, transpose, determinant and inverse.                     *)
(*                                                                         *)
(* A matrix value is a record                                              *)
(*     [N, M, data, rows, cols]                                            *)
(* where N and M are the const generic parameters of the type, data is the *)
(* backing array [T; N * M] (a sequence, 1-based here, 0-based in Rust),   *)
(* and rows / cols are the two recorded usize fields.  T is modelled as    *)
(* the mathematical integers (an exact arithmetic type).                   *)
(*                                                                         *)
(* Every operation returns a result record whose status is "ok" or         *)
(* "panic"; "panic" stands for any fatal failure (assert!, assert_eq!,     *)
(* unwrap on None, slice index out of bounds, todo!).                      *)
(***************************************************************************)
EXTENDS Integers, Sequences, FiniteSets

VARIABLES A, B, last, pc

vars == <<A, B, last, pc>>

(***************************************************************************)
(* Bounds of the exploration.                                              *)
(***************************************************************************)
\* element values of the generated inputs are 0..MaxVal
MaxVal == 1
\* generated matrix types have at most MaxCells elements
MaxCells == 4
\* a generated right operand has at most MaxCellsRhs elements
MaxCellsRhs == 2

Elem == 0 .. MaxVal

(***************************************************************************)
(* The struct and the result of a call.                                    *)
(***************************************************************************)
Matrix(n, m, d, r, c) == [N |-> n, M |-> m, data |-> d, rows |-> r, cols |-> c]

NoMatrix == Matrix(0, 0, << >>, 0, 0)

Ok(m) == [status |-> "ok", mat |-> m, val |-> 0, opt |-> "na"]

OkVal(v) == [status |-> "ok", mat |-> NoMatrix, val |-> v, opt |-> "na"]

OkNone == [status |-> "ok", mat |-> NoMatrix, val |-> 0, opt |-> "None"]

Panic == [status |-> "panic", mat |-> NoMatrix, val |-> 0, opt |-> "na"]

IsOk(res) == res.status = "ok"

\* [x; n]: an array of n copies of x
Repeat(x, n) == [k \in 1 .. n |-> x]

(***************************************************************************)
(* Index / IndexMut                                                        *)
(***************************************************************************)
\* &self[(i0, i1)]: two assertions against the recorded counts, then the
\* (bounds-checked) array access at offset i0 * cols + i1
index(self, i0, i1) ==
    IF ~(i0 < self.rows) THEN Panic
    ELSE IF ~(i1 < self.cols) THEN Panic
    ELSE LET off == i0 * self.cols + i1
         IN  IF off < Len(self.data) THEN OkVal(self.data[off + 1]) ELSE Panic

\* self[(i0, i1)] = v: no assertion, only the array's own bounds check
index_mut(self, i0, i1, v) ==
    LET off == i0 * self.cols + i1
    IN  IF off < Len(self.data)
        THEN Ok([self EXCEPT !.data[off + 1] = v])
        ELSE Panic

(***************************************************************************)
(* Constructors                                                            *)
(***************************************************************************)
\* Matrix::<T, n, m>::zeroes(r, c)
zeroes(n, m, r, c) ==
    IF n # r THEN Panic
    ELSE IF m # c THEN Panic
    ELSE Ok(Matrix(n, m, Repeat(0, n * m), r, c))

\* Matrix::<T, n, m>::ones(r, c)
ones(n, m, r, c) ==
    IF n # r THEN Panic
    ELSE IF m # c THEN Panic
    ELSE Ok(Matrix(n, m, Repeat(1, n * m), r, c))

\* the closures handed to from_closure: |x, y| x + y (the documented one),
\* |x, y| 2 * x + y, and |x, y| if x == y { 1 } else { 0 }
Closures == {"sum", "weighted", "diag"}

func(f, x, y) ==
    CASE f = "sum" -> x + y
      [] f = "weighted" -> 2 * x + y
      [] OTHER -> IF x = y THEN 1 ELSE 0

\* the two nested loops of from_closure, flattened: step k visits
\* (x, y) = (k div m, k mod m) for k = 0 .. n * m - 1
RECURSIVE from_closure_loop(_, _, _)
from_closure_loop(result, f, k) ==
    IF k >= result.N * result.M THEN Ok(result)
    ELSE LET x == k \div result.M
             y == k % result.M
             w == index_mut(result, x, y, func(f, x, y))
         IN  IF IsOk(w) THEN from_closure_loop(w.mat, f, k + 1) ELSE Panic

\* Matrix::<T, n, m>::from_closure(r, c, func)
from_closure(n, m, r, c, f) ==
    LET z == zeroes(n, m, r, c)
    IN  IF IsOk(z) THEN from_closure_loop(z.mat, f, 0) ELSE Panic

\* the loop of identity from step i on
RECURSIVE identity_loop(_, _, _)
identity_loop(base, size, i) ==
    IF i >= size THEN Ok(base)
    ELSE LET w == index_mut(base, i, i, 1)
         IN  IF IsOk(w) THEN identity_loop(w.mat, size, i + 1) ELSE Panic

\* an identity whose loop starts at i = 1
identity_SkipFirst(n, size) ==
    LET z == zeroes(n, n, size, size)
    IN  IF IsOk(z) THEN identity_loop(z.mat, size, 1) ELSE Panic

\* Matrix::<T, n, n>::identity(size)
identity(n, size) ==
    LET z == zeroes(n, n, size, size)
    IN  IF IsOk(z) THEN identity_loop(z.mat, size, 0) ELSE Panic

\* value.iter().flatten()
RECURSIVE Flatten(_)
Flatten(value) ==
    IF value = << >> THEN << >> ELSE Head(value) \o Flatten(Tail(value))

\* Matrix::<T, n, m>::from(value), value a Vec<Vec<T>>
from(n, m, value) ==
    IF Len(value) = 0 THEN Panic                    \* value[0]
    ELSE IF \E k \in 1 .. Len(value) : Len(value[k]) # Len(value[1]) THEN Panic
    ELSE IF Len(value[1]) = 0 THEN Panic            \* value[0][0]
    ELSE LET flattened == Flatten(value)
         IN  IF Len(flattened) < n * m THEN Panic   \* next().unwrap()
             ELSE Ok(Matrix(n, m, SubSeq(flattened, 1, n * m),
                            Len(value), Len(value[1])))

(***************************************************************************)
(* Element-wise addition and subtraction.  Both operands have the same     *)
(* type parameters (the impl is for Matrix<T, N, M> and Matrix<Q, N, M>).  *)
(***************************************************************************)
\* self + rhs
add(self, rhs) ==
    IF self.rows # rhs.rows THEN Panic
    ELSE Ok(Matrix(self.N, self.M,
                   [i \in 1 .. self.N * self.M |-> self.data[i] + rhs.data[i]],
                   self.rows, self.cols))

\* self += rhs
add_assign(self, rhs) ==
    Ok([self EXCEPT !.data =
            [i \in 1 .. self.N * self.M |-> self.data[i] + rhs.data[i]]])

\* a subtraction with the operands the wrong way round
sub_Reversed(self, rhs) ==
    IF self.rows # rhs.rows THEN Panic
    ELSE Ok(Matrix(self.N, self.M,
                   [i \in 1 .. self.N * self.M |-> rhs.data[i] - self.data[i]],
                   self.rows, self.cols))

\* self - rhs
sub(self, rhs) ==
    IF self.rows # rhs.rows THEN Panic
    ELSE Ok(Matrix(self.N, self.M,
                   [i \in 1 .. self.N * self.M |-> self.data[i] - rhs.data[i]],
                   self.rows, self.cols))

\* self -= rhs
sub_assign(self, rhs) ==
    Ok([self EXCEPT !.data =
            [i \in 1 .. self.N * self.M |-> self.data[i] - rhs.data[i]]])

(***************************************************************************)
(* Multiplication: Matrix<T, N, M> * Matrix<Q, O, P>, compiled only when   *)
(* M == O.                                                                 *)
(***************************************************************************)
\* dot_product_terms.iter().fold(R::zero(), |acc, val| acc + *val)
RECURSIVE fold_terms(_, _, _)
fold_terms(terms, i, acc) ==
    IF i > Len(terms) THEN acc ELSE fold_terms(terms, i + 1, acc + terms[i])

\* a product that reads the right operand transposed
mul_cell_RhsTransposed(self, rhs, x, y) ==
    IF \E i \in 0 .. self.M - 1 :
           ~IsOk(index(self, x, i)) \/ ~IsOk(index(rhs, y, i))
    THEN Panic
    ELSE LET dot_product_terms ==
                 [i \in 1 .. self.M |->
                     index(self, x, i - 1).val * index(rhs, y, i - 1).val]
         IN  OkVal(fold_terms(dot_product_terms, 1, 0))

\* the body of the two outer loops for one (x, y): the M products
\* self[(x, i)] * rhs[(i, y)], then their fold
mul_cell(self, rhs, x, y) ==
    IF \E i \in 0 .. self.M - 1 :
           ~IsOk(index(self, x, i)) \/ ~IsOk(index(rhs, i, y))
    THEN Panic
    ELSE LET dot_product_terms ==
                 [i \in 1 .. self.M |->
                     index(self, x, i - 1).val * index(rhs, i - 1, y).val]
         IN  OkVal(fold_terms(dot_product_terms, 1, 0))

\* the two outer loops, flattened: step k visits (x, y) = (k div P, k mod P)
RECURSIVE mul_loop(_, _, _, _)
mul_loop(self, rhs, result, k) ==
    IF k >= self.N * rhs.M THEN Ok(result)
    ELSE LET x == k \div rhs.M
             y == k % rhs.M
             cell == mul_cell(self, rhs, x, y)
         IN  IF ~IsOk(cell) THEN Panic
             ELSE LET w == index_mut(result, x, y, cell.val)
                  IN  IF IsOk(w) THEN mul_loop(self, rhs, w.mat, k + 1)
                      ELSE Panic

\* self * rhs
mul(self, rhs) ==
    LET z == zeroes(self.N, rhs.M, self.N, rhs.M)
    IN  IF IsOk(z) THEN mul_loop(self, rhs, z.mat, 0) ELSE Panic

(***************************************************************************)
(* Transpose                                                               *)
(***************************************************************************)
\* the two loops, flattened: step k visits (x, y) = (k div N, k mod N) of
\* the (M, N) result
RECURSIVE transpose_loop(_, _, _)
transpose_loop(self, result, k) ==
    IF k >= self.M * self.N THEN Ok(result)
    ELSE LET x == k \div self.N
             y == k % self.N
             e == index(self, y, x)
         IN  IF ~IsOk(e) THEN Panic
             ELSE LET w == index_mut(result, x, y, e.val)
                  IN  IF IsOk(w) THEN transpose_loop(self, w.mat, k + 1)
                      ELSE Panic

\* a transpose that copies the data without moving it
transpose_NoMove(self) ==
    LET z == zeroes(self.M, self.N, self.M, self.N)
    IN  IF IsOk(z) THEN Ok([z.mat EXCEPT !.data = self.data]) ELSE Panic

\* self.transpose()
transpose(self) ==
    LET z == zeroes(self.M, self.N, self.M, self.N)
    IN  IF IsOk(z) THEN transpose_loop(self, z.mat, 0) ELSE Panic

(***************************************************************************)
(* Determinant and inverse, for Matrix<T, N, N>.                           *)
(***************************************************************************)
\* the sizes the match in determinant has an expression for
DetSizes == {1, 2, 3}

\* self[(i0, i1)] inside an expression all of whose reads succeed
at(self, i0, i1) == index(self, i0, i1).val

\* self.determinant(), for N in DetSizes
determinant(self) ==
    IF \E i0 \in 0 .. self.N - 1, i1 \in 0 .. self.N - 1 :
           ~IsOk(index(self, i0, i1))
    THEN Panic
    ELSE CASE self.N = 1 -> OkVal(at(self, 0, 0))
           [] self.N = 2 ->
                OkVal(at(self, 0, 0) * at(self, 1, 1)
                      - at(self, 0, 1) * at(self, 1, 0))
           [] OTHER ->
                OkVal(at(self, 0, 0) * at(self, 1, 1) * at(self, 2, 2)
                      + at(self, 0, 1) * at(self, 1, 2) * at(self, 2, 0)
                      + at(self, 0, 2) * at(self, 1, 0) * at(self, 2, 1)
                      - at(self, 0, 2) * at(self, 1, 1) * at(self, 2, 0)
                      + at(self, 0, 1) * at(self, 1, 0) * at(self, 2, 2)
                      + at(self, 0, 0) * at(self, 1, 2) * at(self, 2, 1))

\* self.inverse(): None for a zero determinant, todo!() otherwise; no path
\* returns Some
inverse(self) ==
    LET d == determinant(self)
    IN  IF ~IsOk(d) THEN Panic
        ELSE IF d.val = 0 THEN OkNone
        ELSE Panic

(***************************************************************************)
(* Inputs of the exploration.                                              *)
(***************************************************************************)
\* the literal matrices of the crate's documented scenarios
Examples ==
    { << <<1, 2>>, <<3, 4>> >>, << <<5, 6>>, <<7, 8>> >>,
      << <<1, 2, 3>>, <<4, 5, 6>> >>,
      << <<2, 0>>, <<0, 2>> >>, << <<1, 2>>, <<2, 4>> >> }

\* every rectangular Vec<Vec<T>> of r rows of c elements over Elem
Rect(r, c) == [1 .. r -> [1 .. c -> Elem]]

RectDims == {d \in (1 .. MaxCells) \X (1 .. MaxCells) : d[1] * d[2] <= MaxCells}

\* an empty vector, a vector of one empty row, a ragged vector
Degenerate == { << >>, << << >> >>, << <<0>>, <<0, 1>> >> }

VecInputs == UNION {Rect(d[1], d[2]) : d \in RectDims} \cup Examples \cup Degenerate

\* the (N, M) type parameters explored
Shapes == RectDims \cup {<<2, 3>>, <<3, 2>>}

\* a vector for the right operand: small, or one of the documented ones
RhsInputs ==
    {value \in VecInputs :
        \/ value \in Examples \cup Degenerate
        \/ Len(Flatten(value)) <= MaxCellsRhs}

\* a vector for the left operand of a binary operator, whose type is
\* (n, m): n rows of m elements, or one of the documented or degenerate ones
LhsInputs(n, m) == Rect(n, m) \cup Examples \cup Degenerate

\* the arguments tried for a row or column count of a type that has n:
\* the matching one and a wrong one
Counts(n) == {n, n + 1}

SquareInputs == UNION {Rect(n, n) : n \in DetSizes} \cup Examples

(***************************************************************************)
(* The state: the two matrix variables of a calling program, a record of   *)
(* the last call (its arguments and what it returned), and the program's   *)
(* position: "newA" before `let a = ...`, "newB" before `let b = ...`,     *)
(* "ops" once the operands exist.                                          *)
(***************************************************************************)
Call(op, res, pre, i0, i1) ==
    [op |-> op, status |-> res.status, mat |-> res.mat, val |-> res.val,
     opt |-> res.opt, pre |-> pre, i0 |-> i0, i1 |-> i1]

Init ==
    /\ A = NoMatrix
    /\ B = NoMatrix
    /\ last = Call("init", Ok(NoMatrix), NoMatrix, 0, 0)
    /\ pc = "newA"

\* The calling program is of one of three kinds: "one" builds a single
\* matrix, "same" builds two operands of one type (what Add, Sub, AddAssign
\* and SubAssign accept), "mul" builds a Matrix<T, N, M> and a
\* Matrix<Q, M, P> (what Mul accepts) whose product type (N, P) is one of
\* the explored types.  TypeOk(kind, d): the program may build a matrix of
\* type d at its position.
TypeOk(kind, d) ==
    pc = "newB" => IF kind = "same" THEN A.N = d[1] /\ A.M = d[2]
                   ELSE A.M = d[1] /\ <<A.N, d[2]>> \in Shapes

\* `let a = <constructor>` or `let b = <constructor>`; a panic ends the run
\* and leaves the program where it was
Bind(kind, op, res) ==
    /\ A' = IF IsOk(res) /\ pc = "newA" THEN res.mat ELSE A
    /\ B' = IF IsOk(res) /\ pc = "newB" THEN res.mat ELSE B
    /\ pc' = IF ~IsOk(res) THEN pc
             ELSE IF pc = "newA" /\ kind # "one" THEN "newB" ELSE "ops"
    /\ last' = Call(op, res, NoMatrix, 0, 0)

Zeroes(kind) ==
    /\ pc \in {"newA", "newB"}
    /\ \E d \in Shapes :
        /\ TypeOk(kind, d)
        /\ \E r \in Counts(d[1]), c \in Counts(d[2]) :
            Bind(kind, "zeroes", zeroes(d[1], d[2], r, c))

Ones(kind) ==
    /\ pc \in {"newA", "newB"}
    /\ \E d \in Shapes :
        /\ TypeOk(kind, d)
        /\ \E r \in Counts(d[1]), c \in Counts(d[2]) :
            Bind(kind, "ones", ones(d[1], d[2], r, c))

Identity(kind) ==
    /\ pc \in {"newA", "newB"}
    /\ \E d \in Shapes :
        /\ d[1] = d[2]
        /\ TypeOk(kind, d)
        /\ \E size \in Counts(d[1]) :
            Bind(kind, "identity", identity(d[1], size))

FromClosure(kind) ==
    /\ pc \in {"newA", "newB"}
    /\ \E d \in Shapes :
        /\ TypeOk(kind, d)
        /\ \E r \in Counts(d[1]), c \in Counts(d[2]), f \in Closures :
            Bind(kind, "from_closure", from_closure(d[1], d[2], r, c, f))

From(kind) ==
    /\ pc \in {"newA", "newB"}
    /\ \E d \in Shapes :
        /\ TypeOk(kind, d)
        /\ \E value \in IF pc = "newB" THEN RhsInputs
                       ELSE IF kind # "one" THEN LhsInputs(d[1], d[2])
                       ELSE VecInputs :
            Bind(kind, "from", from(d[1], d[2], value))

FromSquare ==
    /\ pc = "newA"
    /\ \E n \in DetSizes, value \in SquareInputs :
        Bind("one", "from", from(n, n, value))

IdentitySquare ==
    /\ pc = "newA"
    /\ \E n \in DetSizes :
        Bind("one", "identity", identity(n, n))

\* the element-wise operators need operands of one type
SameType == A.N = B.N /\ A.M = B.M

\* the in-place operations are explored while the elements stay in Elem
InElem(m) == \A i \in 1 .. Len(m.data) : m.data[i] \in Elem

Add ==
    /\ pc = "ops"
    /\ SameType
    /\ last' = Call("add", add(A, B), NoMatrix, 0, 0)
    /\ UNCHANGED <<A, B, pc>>

Sub ==
    /\ pc = "ops"
    /\ SameType
    /\ last' = Call("sub", sub(A, B), NoMatrix, 0, 0)
    /\ UNCHANGED <<A, B, pc>>

\* (a + b) - b: the difference of the sum just computed and b
SubSum ==
    /\ pc = "ops"
    /\ last.op = "add"
    /\ last.status = "ok"
    /\ last' = Call("add_sub", sub(last.mat, B), last.mat, 0, 0)
    /\ UNCHANGED <<A, B, pc>>

AddAssign ==
    /\ pc = "ops"
    /\ SameType
    /\ LET res == add_assign(A, B)
       IN  /\ InElem(res.mat)
           /\ A' = res.mat
           /\ last' = Call("add_assign", res, A, 0, 0)
    /\ UNCHANGED <<B, pc>>

SubAssign ==
    /\ pc = "ops"
    /\ SameType
    /\ LET res == sub_assign(A, B)
       IN  /\ InElem(res.mat)
           /\ A' = res.mat
           /\ last' = Call("sub_assign", res, A, 0, 0)
    /\ UNCHANGED <<B, pc>>

\* DimensionAssertion<{ M == O }>: IsTrue
Mul ==
    /\ pc = "ops"
    /\ A.M = B.N
    /\ last' = Call("mul", mul(A, B), NoMatrix, 0, 0)
    /\ UNCHANGED <<A, B, pc>>

Transpose ==
    /\ pc = "ops"
    /\ last' = Call("transpose", transpose(A), A, 0, 0)
    /\ UNCHANGED <<A, B, pc>>

Index ==
    /\ pc = "ops"
    /\ \E i0 \in 0 .. A.rows, i1 \in 0 .. A.cols :
        /\ last' = Call("index", index(A, i0, i1), A, i0, i1)
        /\ UNCHANGED <<A, B, pc>>

IndexMut ==
    /\ pc = "ops"
    /\ InElem(A)
    /\ \E i0 \in 0 .. A.rows, i1 \in 0 .. A.cols, v \in Elem :
        LET res == index_mut(A, i0, i1, v)
        IN  /\ A' = IF IsOk(res) THEN res.mat ELSE A
            /\ last' = Call("index_mut", [res EXCEPT !.val = v], A, i0, i1)
            /\ UNCHANGED <<B, pc>>

Determinant ==
    /\ pc = "ops"
    /\ A.N = A.M
    /\ A.N \in DetSizes
    /\ last' = Call("determinant", determinant(A), A, 0, 0)
    /\ UNCHANGED <<A, B, pc>>

Inverse ==
    /\ pc = "ops"
    /\ A.N = A.M
    /\ A.N \in DetSizes
    /\ last' = Call("inverse", inverse(A), A, 0, 0)
    /\ UNCHANGED <<A, B, pc>>

\* two operands of one type and the element-wise operators
Next ==
    \/ Zeroes("same")
    \/ Ones("same")
    \/ Identity("same")
    \/ FromClosure("same")
    \/ From("same")
    \/ Add
    \/ Sub
    \/ SubSum
    \/ AddAssign
    \/ SubAssign

Spec == Init /\ [][Next]_vars

\* two operands of multipliable types and their product
NextMul ==
    \/ Zeroes("mul")
    \/ Ones("mul")
    \/ Identity("mul")
    \/ FromClosure("mul")
    \/ From("mul")
    \/ Mul

SpecMul == Init /\ [][NextMul]_vars

\* one matrix and the unary operations on it
NextUnary ==
    \/ Zeroes("one")
    \/ Ones("one")
    \/ Identity("one")
    \/ FromClosure("one")
    \/ From("one")
    \/ Index
    \/ IndexMut
    \/ Transpose

SpecUnary == Init /\ [][NextUnary]_vars

\* one square matrix, its determinant and its inverse
NextSquare ==
    \/ FromSquare
    \/ IdentitySquare
    \/ Determinant
    \/ Inverse

SpecSquare == Init /\ [][NextSquare]_vars

(***************************************************************************)
(* Vocabulary of the properties.                                           *)
(***************************************************************************)
\* m is an (N, M) matrix: its recorded counts are those of its type
WellFormed(m) == m.rows = m.N /\ m.cols = m.M

\* the element of m at (r, c) in row-major order
Cell(m, r, c) == m.data[r * m.cols + c + 1]

\* sum over i = from .. a.M - 1 of a(x, i) * b(i, y), added to acc in
\* ascending i
RECURSIVE DotSum(_, _, _, _, _, _)
DotSum(a, b, x, y, from_i, acc) ==
    IF from_i >= a.M THEN acc
    ELSE DotSum(a, b, x, y, from_i + 1, acc + Cell(a, x, from_i) * Cell(b, from_i, y))

\* m is the n by n identity: one on the diagonal, zero elsewhere
IsIdentityMatrix(m) ==
    /\ WellFormed(m)
    /\ m.N = m.M
    /\ m.N >= 1
    /\ \A x \in 0 .. m.N - 1, y \in 0 .. m.N - 1 :
          Cell(m, x, y) = IF x = y THEN 1 ELSE 0

\* the square array of a well-formed square matrix
ArrayOf(m) ==
    [q \in (0 .. m.N - 1) \X (0 .. m.N - 1) |-> Cell(m, q[1], q[2])]

\* the n by n array a without row i and column j
Minor(a, n, i, j) ==
    [q \in (0 .. n - 2) \X (0 .. n - 2) |->
        a[<<IF q[1] >= i THEN q[1] + 1 ELSE q[1],
            IF q[2] >= j THEN q[2] + 1 ELSE q[2]>>]]

\* the first-row cofactor expansion of the n by n array a
RECURSIVE CofactorDet(_, _)
RECURSIVE CofactorSum(_, _, _)
CofactorDet(a, n) ==
    IF n = 1 THEN a[<<0, 0>>] ELSE CofactorSum(a, n, 0)

CofactorSum(a, n, j) ==
    IF j >= n THEN 0
    ELSE (IF j % 2 = 0 THEN 1 ELSE -1) * a[<<0, j>>]
             * CofactorDet(Minor(a, n, 0, j), n - 1)
         + CofactorSum(a, n, j + 1)

\* the matrices the state holds
Held == {A, B, last.mat, last.pre}

(***************************************************************************)
(* C1.  Every matrix a constructor returns, and every matrix obtained from *)
(* such matrices by the operators, records the row and column counts of    *)
(* its type; `from` given a rectangular vector of another shape fails      *)
(* instead of returning a matrix.  The code does not do this: `from`       *)
(* records the shape of its argument without comparing it to (N, M).       *)
(***************************************************************************)
C1_RecordedCountsAreTheTypes ==
    \A m \in Held : m.rows = m.N /\ m.cols = m.M

(***************************************************************************)
(* C2.  The product of an (N, M) matrix and an (M, P) matrix is an (N, P)  *)
(* matrix whose element at (x, y) is the sum, in ascending i from zero, of *)
(* A(x, i) * B(i, y).                                                      *)
(***************************************************************************)
C2_MulIsRowTimesColumn ==
    (last.op = "mul" /\ WellFormed(A) /\ WellFormed(B)) =>
        /\ last.status = "ok"
        /\ last.mat.N = A.N /\ last.mat.M = B.M
        /\ last.mat.rows = A.N /\ last.mat.cols = B.M
        /\ Len(last.mat.data) = A.N * B.M
        /\ \A x \in 0 .. A.N - 1, y \in 0 .. B.M - 1 :
              Cell(last.mat, x, y) = DotSum(A, B, x, y, 0, 0)

\* [[1,2],[3,4]] * [[5,6],[7,8]] has been computed and is [[19,22],[43,50]]
C2_Witness ==
    /\ last.op = "mul"
    /\ A = Matrix(2, 2, <<1, 2, 3, 4>>, 2, 2)
    /\ B = Matrix(2, 2, <<5, 6, 7, 8>>, 2, 2)
    /\ last.mat = Matrix(2, 2, <<19, 22, 43, 50>>, 2, 2)

(***************************************************************************)
(* C3.  identity(n) has the multiplicative identity on the diagonal and    *)
(* the additive identity elsewhere, and for a square (n, n) matrix A both  *)
(* A * identity(n) and identity(n) * A equal A.                            *)
(***************************************************************************)
C3_IdentityIsNeutral ==
    /\ (last.op = "identity" /\ last.status = "ok") => IsIdentityMatrix(last.mat)
    /\ (last.op = "mul" /\ WellFormed(A) /\ WellFormed(B) /\ A.N = A.M /\ B.N = B.M) =>
          /\ (B = identity(A.N, A.N).mat) =>
                (IsIdentityMatrix(B) /\ last.status = "ok" /\ last.mat = A)
          /\ (A = identity(B.N, B.N).mat) =>
                (IsIdentityMatrix(A) /\ last.status = "ok" /\ last.mat = B)

\* a 2 by 2 matrix that is not symmetric has been multiplied by identity(2)
C3_Witness ==
    /\ last.op = "mul"
    /\ WellFormed(A) /\ A.N = 2 /\ A.M = 2
    /\ Cell(A, 0, 1) # Cell(A, 1, 0)
    /\ IsIdentityMatrix(B)
    /\ last.mat = A

(***************************************************************************)
(* C4.  The determinant of a square matrix of size 1, 2 or 3 is its        *)
(* first-row cofactor expansion.  The code's expression for size 3 adds    *)
(* two of the three products it has to subtract.                           *)
(***************************************************************************)
C4_DeterminantIsCofactorExpansion ==
    (last.op = "determinant" /\ WellFormed(A)) =>
        /\ last.status = "ok"
        /\ last.val = CofactorDet(ArrayOf(A), A.N)

(***************************************************************************)
(* C5.  The inverse of a square matrix whose determinant is zero is None,  *)
(* and computing it does not fail.  The code decides on the value of its   *)
(* own determinant, which for size 3 is not the determinant (C4).          *)
(***************************************************************************)
C5_SingularHasNoInverse ==
    (last.op = "inverse" /\ WellFormed(A) /\ CofactorDet(ArrayOf(A), A.N) = 0) =>
        /\ last.status = "ok"
        /\ last.opt = "None"

(***************************************************************************)
(* C6.  The inverse of a square matrix whose determinant is not zero is    *)
(* Some(B) with A * B the identity.  The code reaches todo!() instead.     *)
(***************************************************************************)
C6_InverseOfInvertible ==
    (last.op = "inverse" /\ WellFormed(A) /\ CofactorDet(ArrayOf(A), A.N) # 0) =>
        /\ last.status = "ok"
        /\ last.opt = "Some"
        /\ IsOk(mul(A, last.mat))
        /\ IsIdentityMatrix(mul(A, last.mat).mat)

(***************************************************************************)
(* C7.  Reading A[(row, col)] fails when row >= rows or col >= cols (the   *)
(* recorded counts), and otherwise returns the element at offset           *)
(* row * cols + col.  On a matrix that `from` gave more rows than its type *)
(* has (C1) a read inside the recorded counts falls outside the array.     *)
(***************************************************************************)
C7_ReadIsBoundsChecked ==
    last.op = "index" =>
        IF last.i0 >= A.rows \/ last.i1 >= A.cols
        THEN last.status = "panic"
        ELSE /\ last.status = "ok"
             /\ last.i0 * A.cols + last.i1 < Len(A.data)
             /\ last.val = A.data[last.i0 * A.cols + last.i1 + 1]

(***************************************************************************)
(* C8.  Writing A[(row, col)] = v fails when row >= rows or col >= cols,   *)
(* and then changes no element.  The code's index_mut has no assertion: a  *)
(* column past the end lands in the next row.                              *)
(***************************************************************************)
C8_WriteIsBoundsChecked ==
    (last.op = "index_mut" /\ (last.i0 >= last.pre.rows \/ last.i1 >= last.pre.cols)) =>
        /\ last.status = "panic"
        /\ A = last.pre

(***************************************************************************)
(* C9.  The transpose of an (R, C) matrix A is a new (C, R) matrix whose   *)
(* element at (x, y) is A(y, x); A is unchanged.                           *)
(***************************************************************************)
C9_TransposeSwapsCoordinates ==
    (last.op = "transpose" /\ WellFormed(last.pre)) =>
        /\ last.status = "ok"
        /\ last.mat.N = last.pre.M /\ last.mat.M = last.pre.N
        /\ last.mat.rows = last.pre.M /\ last.mat.cols = last.pre.N
        /\ Len(last.mat.data) = last.pre.N * last.pre.M
        /\ \A x \in 0 .. last.pre.M - 1, y \in 0 .. last.pre.N - 1 :
              Cell(last.mat, x, y) = Cell(last.pre, y, x)
        /\ A = last.pre

\* the transpose of [[1,2,3],[4,5,6]] has been computed and is
\* [[1,4],[2,5],[3,6]]
C9_Witness ==
    /\ last.op = "transpose"
    /\ A = Matrix(2, 3, <<1, 2, 3, 4, 5, 6>>, 2, 3)
    /\ last.mat = Matrix(3, 2, <<1, 4, 2, 5, 3, 6>>, 3, 2)

(***************************************************************************)
(* C10.  For A and B of equal dimensions, A + B and A - B are computed     *)
(* element by element and carry A's recorded counts, and (A + B) - B is A. *)
(***************************************************************************)
C10_AddThenSubIsIdentity ==
    (WellFormed(A) /\ WellFormed(B)) =>
        /\ last.op = "add" =>
              /\ last.status = "ok"
              /\ last.mat = [A EXCEPT !.data =
                                [i \in 1 .. A.N * A.M |-> A.data[i] + B.data[i]]]
        /\ last.op = "sub" =>
              /\ last.status = "ok"
              /\ last.mat = [A EXCEPT !.data =
                                [i \in 1 .. A.N * A.M |-> A.data[i] - B.data[i]]]
        /\ last.op = "add_sub" =>
              /\ last.status = "ok"
              /\ last.mat = A

\* (A + B) - B has been computed for two matrices of at least two elements
\* that are not zero and differ
C10_Witness ==
    /\ last.op = "add_sub"
    /\ WellFormed(A) /\ WellFormed(B)
    /\ A.N * A.M >= 2
    /\ A # B
    /\ \E i \in 1 .. Len(A.data) : A.data[i] # 0
    /\ \E i \in 1 .. Len(B.data) : B.data[i] # 0
    /\ last.mat = A

====
